---------------------------- MODULE Spec2Model ----------------------------
(* Component / EventBus / ComponentManager triad of LIFESIM.                *)
(* Component and ComponentManager are translated from src/core/component.py.*)
(* core.event_bus (EventBus, Event) is imported by that file but is not     *)
(* part of the sources; it is modelled from the specification (section 4.2).*)
EXTENDS Integers, Sequences, FiniteSets, TLC

(***************************************************************************)
(* Bounds of the model                                                     *)
(***************************************************************************)
MaxInst == 2      \* component instances constructed (bus and driver scenarios)
MaxMgrInst == 3   \* component instances constructed (manager scenarios)
MaxEvents == 3    \* events ever emitted
MaxClock == 2     \* EventBus.tick() calls
MaxRaises == 1    \* handler invocations that raise
MaxMgrTicks == 1  \* ComponentManager.tick() calls

(***************************************************************************)
(* Program constants and the small input sets                              *)
(***************************************************************************)
DefaultPriority == 5
Broadcast == "all"
Agents == {"agent_7", "agent_8"}
\* a component class is a class object: two classes may share __name__
Classes == { [module |-> "agent.needs", name |-> "NeedsSystem"],
             [module |-> "agent.body", name |-> "Body"],
             [module |-> "legacy.body", name |-> "Body"] }
EventTypes == {"ping", "pong"}
Priorities == {1, DefaultPriority}
Targets == {Broadcast} \cup Agents
DeltaTimes == {1, 2}
\* a concrete component's private state, as far as serialize() shows it
NumStates == 3
None == 0
EmptyMap == <<>>

VARIABLES
  clock,      \* EventBus logical clock
  queue,      \* EventBus pending events
  subs,       \* EventBus subscription table: type -> sequence of handlers
  plan,       \* deliveries left in the running EventBus.tick() pass
  pc,         \* "idle", "deliver" (inside EventBus.tick), "mgr" (inside ComponentManager.tick)
  inst,       \* every Component instance ever constructed, by identity
  reg,        \* ComponentManager._components of each agent's manager
  obs,        \* the running / last operation and what it did (history)
  emitted,    \* history: every event handed to EventBus.emit, with the tick window
  delivered,  \* history: every handler invocation made by the bus
  added,      \* history: instance returned by the latest add_component(T), per agent
  bticks,     \* history: number of EventBus.tick() calls started
  mticks,     \* history: number of ComponentManager.tick() calls started, per agent
  saved,      \* the mapping the latest serialize() of each manager returned, as its caller keeps it
  registered  \* history: every registration of a handler for a type, in the order made

vars == <<clock, queue, subs, plan, pc, inst, reg, obs, emitted, delivered, added,
          bticks, mticks, saved, registered>>

(***************************************************************************)
(* Python dict with insertion order, as ComponentManager._components uses  *)
(***************************************************************************)
RECURSIVE SeqSum(_)
SeqSum(s) == IF s = <<>> THEN 0 ELSE Head(s) + SeqSum(Tail(s))

DictKeys(d) == [i \in 1..Len(d) |-> d[i].key]
DictValues(d) == [i \in 1..Len(d) |-> d[i].value]
DictHas(d, k) == \E i \in 1..Len(d) : d[i].key = k
\* dict.get(k): the value stored under k, None when absent
DictGet(d, k) ==
  IF DictHas(d, k) THEN d[CHOOSE i \in 1..Len(d) : d[i].key = k].value ELSE None

\* a registry that never replaces: each add appends a further entry
DictSetAppend(d, k, v) == Append(d, [key |-> k, value |-> v])
\* a registry that moves a replaced key behind every other key
DictSetMoveToEnd(d, k, v) ==
  Append(SelectSeq(d, LAMBDA e : e.key # k), [key |-> k, value |-> v])
\* d[k] = v: an existing key keeps its position and gets the new value
DictSet(d, k, v) ==
  IF DictHas(d, k)
  THEN [i \in 1..Len(d) |-> IF d[i].key = k THEN [key |-> k, value |-> v] ELSE d[i]]
  ELSE Append(d, [key |-> k, value |-> v])

(***************************************************************************)
(* Component                                                               *)
(***************************************************************************)
\* Component.__init__
NewComponent(agent_id, cls) ==
  [agent_id |-> agent_id, cls |-> cls, agent |-> None,
   subscribed_events |-> <<>>, state |-> 0]

\* Component.get_component_name
get_component_name(c) == inst[c].cls.name

Instances == 1..Len(inst)

(***************************************************************************)
(* EventBus (modelled from the specification)                              *)
(***************************************************************************)
get_current_time == clock

\* a table that puts the newest handler first
RECURSIVE BusSubscribeFront(_, _, _)
BusSubscribeFront(table, types, handler) ==
  IF types = <<>> THEN table
  ELSE BusSubscribeFront([table EXCEPT ![Head(types)] = <<handler>> \o @],
                         Tail(types), handler)

\* EventBus.subscribe(event_types, handler)
RECURSIVE BusSubscribe(_, _, _)
BusSubscribe(table, types, handler) ==
  IF types = <<>> THEN table
  ELSE BusSubscribe([table EXCEPT ![Head(types)] = Append(@, handler)],
                    Tail(types), handler)

\* EventBus.emit(event)
BusEmit(q, event) == Append(q, event)

\* stable insertion of e behind every event of priority <= e.priority
RECURSIVE InsertByPriority(_, _)
InsertByPriority(s, e) ==
  IF s = <<>> THEN <<e>>
  ELSE IF Head(s).priority <= e.priority
       THEN <<Head(s)>> \o InsertByPriority(Tail(s), e)
       ELSE <<e>> \o s

RECURSIVE SortByPriority(_)
SortByPriority(q) ==
  IF q = <<>> THEN <<>>
  ELSE InsertByPriority(SortByPriority(SubSeq(q, 1, Len(q) - 1)), q[Len(q)])

\* the handler (a bound on_event) belongs to the agent of its component
Matches(event, handler) ==
  event.target = Broadcast \/ event.target = inst[handler].agent_id

\* handlers of one event, in registration order, filtered by target
RECURSIVE HandlersFrom(_, _, _)
HandlersFrom(event, hs, i) ==
  IF i > Len(hs) THEN <<>>
  ELSE (IF Matches(event, hs[i])
        THEN <<[event |-> event, handler |-> hs[i], sub |-> i]>>
        ELSE <<>>) \o HandlersFrom(event, hs, i + 1)

\* the delivery pass of one tick: every event of the batch to its handlers
RECURSIVE DeliveryPlan(_, _)
DeliveryPlan(batch, table) ==
  IF batch = <<>> THEN <<>>
  ELSE HandlersFrom(Head(batch), table[Head(batch).type], 1)
       \o DeliveryPlan(Tail(batch), table)

(***************************************************************************)
(* Initial state: a fresh bus and one empty manager per agent              *)
(***************************************************************************)
Init ==
  /\ clock = 0
  /\ queue = <<>>
  /\ subs = [t \in EventTypes |-> <<>>]
  /\ plan = <<>>
  /\ pc = "idle"
  /\ inst = <<>>
  /\ reg = [a \in Agents |-> <<>>]
  /\ obs = [op |-> "init"]
  /\ emitted = <<>>
  /\ delivered = <<>>
  /\ added = [a \in Agents |-> [K \in Classes |-> None]]
  /\ bticks = 0
  /\ mticks = [a \in Agents |-> 0]
  /\ saved = [a \in Agents |-> <<>>]
  /\ registered = <<>>

(***************************************************************************)
(* ComponentManager.add_component                                          *)
(***************************************************************************)
add_component(a, K) ==
  /\ pc = "idle"
  /\ LET c == Len(inst) + 1
         component == [NewComponent(a, K) EXCEPT !.agent = a]
     IN /\ inst' = Append(inst, component)
        /\ reg' = [reg EXCEPT ![a] = DictSet(@, K, c)]
        /\ added' = [added EXCEPT ![a][K] = c]
        /\ obs' = [op |-> "add_component"]
  /\ UNCHANGED <<clock, queue, subs, plan, pc, emitted, delivered, bticks, mticks, saved, registered>>

\* a registry that drops the stored instance before it constructs the new one
RegAfterFailedAddDrop(d, K) == SelectSeq(d, LAMBDA e : e.key # K)
\* the registry when the constructor raised: the exception leaves
\* add_component before the store into _components
RegAfterFailedAdd(d, K) == d

\* add_component(K) whose constructor raises: the error reaches the caller
add_component_raises(a, K) ==
  /\ pc = "idle"
  /\ reg' = [reg EXCEPT ![a] = RegAfterFailedAdd(@, K)]
  /\ obs' = [op |-> "add_component_raised", agent |-> a, cls |-> K,
             reg0 |-> reg[a], surfaced |-> TRUE]
  /\ UNCHANGED <<clock, queue, subs, plan, pc, inst, emitted, delivered, added,
                 bticks, mticks, saved, registered>>

\* ComponentManager.get_component
get_component(a, K) == DictGet(reg[a], K)
\* ComponentManager.has_component
has_component(a, K) == DictHas(reg[a], K)
\* ComponentManager.get_all_components
get_all_components(a) == DictValues(reg[a])

(***************************************************************************)
(* Component.subscribe / Component.emit_event                              *)
(***************************************************************************)
RECURSIVE Dedup(_)
Dedup(s) ==
  IF s = <<>> THEN <<>>
  ELSE LET r == Dedup(SubSeq(s, 1, Len(s) - 1))
       IN IF \E i \in 1..Len(r) : r[i] = s[Len(s)] THEN r ELSE Append(r, s[Len(s)])

\* a subscribe that registers each listed type once
subscribeOnce(c, event_types) ==
  /\ pc = "idle"
  /\ c \in Instances
  /\ subs' = BusSubscribe(subs, Dedup(event_types), c)
  /\ inst' = [inst EXCEPT ![c].subscribed_events = @ \o event_types]
  /\ registered' = registered \o
       [i \in 1..Len(Dedup(event_types)) |->
          [handler |-> c, type |-> Dedup(event_types)[i]]]
  /\ obs' = [op |-> "subscribe"]
  /\ UNCHANGED <<clock, queue, plan, pc, reg, emitted, delivered, added, bticks, mticks, saved>>

subscribe(c, event_types) ==
  /\ pc = "idle"
  /\ c \in Instances
  /\ subs' = BusSubscribe(subs, event_types, c)
  /\ inst' = [inst EXCEPT ![c].subscribed_events = @ \o event_types]
  /\ registered' = registered \o
       [i \in 1..Len(event_types) |-> [handler |-> c, type |-> event_types[i]]]
  /\ obs' = [op |-> "subscribe"]
  /\ UNCHANGED <<clock, queue, plan, pc, reg, emitted, delivered, added, bticks, mticks, saved>>

\* an emit_event that drops its priority argument
BuildEventNoPriority(c, event_type, data, priority, target) ==
  [id |-> Len(emitted) + 1, type |-> event_type, source |-> inst[c].agent_id,
   target |-> target, data |-> IF data = None THEN EmptyMap ELSE data,
   priority |-> DefaultPriority,
   timestamp |-> get_current_time]

\* an emit_event that drops its target argument
BuildEventNoTarget(c, event_type, data, priority, target) ==
  [id |-> Len(emitted) + 1, type |-> event_type, source |-> inst[c].agent_id,
   target |-> Broadcast, data |-> IF data = None THEN EmptyMap ELSE data,
   priority |-> priority,
   timestamp |-> get_current_time]

\* an emit_event that passes source and target in each other's place
BuildEventSwapped(c, event_type, data, priority, target) ==
  [id |-> Len(emitted) + 1, type |-> event_type, source |-> target,
   target |-> inst[c].agent_id, data |-> IF data = None THEN EmptyMap ELSE data,
   priority |-> priority,
   timestamp |-> get_current_time]

\* an emit_event that does not read the clock
BuildEventUnstamped(c, event_type, data, priority, target) ==
  [id |-> Len(emitted) + 1, type |-> event_type, source |-> inst[c].agent_id,
   target |-> target, data |-> IF data = None THEN EmptyMap ELSE data,
   priority |-> priority,
   timestamp |-> 0]

\* the Event that emit_event builds
BuildEvent(c, event_type, data, priority, target) ==
  [id |-> Len(emitted) + 1, type |-> event_type, source |-> inst[c].agent_id,
   target |-> target, data |-> IF data = None THEN EmptyMap ELSE data,
   priority |-> priority,
   timestamp |-> get_current_time]

\* an emit_event that hands the event over twice
EmitForwardTwice(q, event) == BusEmit(BusEmit(q, event), event)
\* emit_event hands the event to the bus
EmitForward(q, event) == BusEmit(q, event)

\* the effect of emit_event on the bus and on the emission history
EmitEffect(c, event_type, data, priority, target) ==
  LET event == BuildEvent(c, event_type, data, priority, target)
  IN /\ queue' = EmitForward(queue, event)
     /\ emitted' = Append(emitted,
          [event |-> event, window |-> clock, in_pass |-> pc = "deliver",
           by |-> c, ctx |-> pc,
           args |-> [type |-> event_type, priority |-> priority, target |-> target]])

emit_event(c, e) ==
  /\ pc = "idle"
  /\ c \in Instances
  /\ EmitEffect(c, e.type, None, e.priority, e.target)
  /\ obs' = [op |-> "emit_event"]
  /\ UNCHANGED <<clock, subs, plan, pc, inst, reg, delivered, added, bticks, mticks, saved, registered>>


(***************************************************************************)
(* EventBus.tick (modelled from the specification): the clock advances,    *)
(* the pending queue is drained in priority order, and each event goes to  *)
(* its handlers one delivery at a time. A handler (an on_event of a        *)
(* concrete component) returns, raises, or emits one event and returns.    *)
(***************************************************************************)
AfterPass(p) == IF p = <<>> THEN "idle" ELSE "deliver"

BusTickBegin ==
  /\ pc = "idle"
  /\ clock' = clock + 1
  /\ bticks' = bticks + 1
  /\ LET batch == SortByPriority(queue)
         todo == DeliveryPlan(batch, subs)
     IN /\ plan' = todo
        /\ pc' = AfterPass(todo)
        /\ obs' = [op |-> "bus_tick", batch |-> batch]
  /\ queue' = <<>>
  /\ UNCHANGED <<subs, inst, reg, emitted, delivered, added, mticks, saved, registered>>

\* a pass that takes in what its handlers emit
RestOfPassReentrant(p, new) == p \o DeliveryPlan(new, subs)
\* the deliveries left once a handler has returned; new holds what it emitted
RestOfPass(p, new) == p
\* a pass that a raising handler aborts
RestAfterRaiseAbort(p) == <<>>
\* the deliveries left once a handler has raised: the failure is reported and
\* the pass goes on
RestAfterRaise(p) == p

\* what a handler or a component's tick emits: emit_event(type) with every
\* default
HandlerEmits ==
  { [type |-> "ping", priority |-> DefaultPriority, target |-> Broadcast] }

NumRaised == Cardinality({i \in 1..Len(delivered) : delivered[i].raised})

Deliver(outcome) ==
  /\ pc = "deliver"
  /\ plan # <<>>
  /\ LET d == Head(plan)
         rest == IF outcome = "raise" THEN RestAfterRaise(Tail(plan))
                 ELSE RestOfPass(Tail(plan), SubSeq(queue', Len(queue) + 1, Len(queue')))
     IN /\ delivered' = Append(delivered,
              [id |-> d.event.id, event |-> d.event, handler |-> d.handler,
               sub |-> d.sub, tick |-> bticks, now |-> get_current_time,
               raised |-> outcome = "raise"])
        /\ CASE outcome = "ok" ->
                  /\ inst' = [inst EXCEPT ![d.handler].state = (@ + 1) % NumStates]
                  /\ UNCHANGED <<queue, emitted>>
             [] outcome = "raise" ->
                  UNCHANGED <<inst, queue, emitted>>
             [] OTHER ->
                  /\ \E e \in HandlerEmits :
                       EmitEffect(d.handler, e.type, None, e.priority, e.target)
                  /\ UNCHANGED inst
        /\ plan' = rest
        /\ pc' = AfterPass(rest)
  /\ UNCHANGED <<clock, subs, reg, obs, added, bticks, mticks, saved, registered>>

(***************************************************************************)
(* ComponentManager.tick: one component per step, in the order of          *)
(* _components.values(). A component's tick returns (the default no-op or  *)
(* an override that updates its state or emits an event) or raises, and an *)
(* exception leaves the loop at once.                                      *)
(***************************************************************************)
MgrDone(todo) == IF todo = <<>> THEN "ok" ELSE "running"

\* a loop that skips the first component
TickOrderSkipFirst(d) == IF d = <<>> THEN <<>> ELSE Tail(DictValues(d))
\* the components the loop visits
TickOrder(d) == DictValues(d)
\* the argument each component's tick gets
TickArg(delta_time) == delta_time
\* a loop that catches the exception and goes on with the next component
AfterTickRaiseSwallow(o) == [o EXCEPT !.todo = Tail(@), !.status = MgrDone(Tail(o.todo))]
\* the loop after a component raised: the exception propagates
AfterTickRaise(o) == [o EXCEPT !.status = "raised"]
MgrPc(status) == IF status = "running" THEN "mgr" ELSE "idle"

\* a manager tick that also advances the bus clock
MgrTickBeginAdvancing(a, delta_time) ==
  /\ pc = "idle"
  /\ mticks' = [mticks EXCEPT ![a] = @ + 1]
  /\ clock' = clock + 1
  /\ LET todo == TickOrder(reg[a])
     IN /\ obs' = [op |-> "mgr_tick", agent |-> a, dt |-> delta_time,
                   todo |-> todo, called |-> <<>>, status |-> MgrDone(todo),
                   raised_by |-> None, reg0 |-> reg[a]]
        /\ pc' = MgrPc(MgrDone(todo))
  /\ UNCHANGED <<queue, subs, plan, inst, reg, emitted, delivered, added, bticks, saved, registered>>

MgrTickBegin(a, delta_time) ==
  /\ pc = "idle"
  /\ mticks' = [mticks EXCEPT ![a] = @ + 1]
  /\ LET todo == TickOrder(reg[a])
     IN /\ obs' = [op |-> "mgr_tick", agent |-> a, dt |-> delta_time,
                   todo |-> todo, called |-> <<>>, status |-> MgrDone(todo),
                   raised_by |-> None, reg0 |-> reg[a]]
        /\ pc' = MgrPc(MgrDone(todo))
  /\ UNCHANGED <<clock, queue, subs, plan, inst, reg, emitted, delivered, added, bticks, saved, registered>>

MgrTickStep(outcome) ==
  /\ pc = "mgr"
  /\ obs.todo # <<>>
  /\ LET c == Head(obs.todo)
         dt == TickArg(obs.dt)
         o1 == [obs EXCEPT !.called = Append(@, [comp |-> c, dt |-> dt]),
                           !.raised_by = IF outcome = "raise" THEN c ELSE @]
         o2 == IF outcome = "raise" THEN AfterTickRaise(o1)
               ELSE [o1 EXCEPT !.todo = Tail(@), !.status = MgrDone(Tail(obs.todo))]
     IN /\ obs' = o2
        /\ pc' = MgrPc(o2.status)
        /\ CASE outcome = "update" ->
                  /\ inst' = [inst EXCEPT ![c].state = (@ + dt) % NumStates]
                  /\ UNCHANGED <<queue, emitted>>
             [] outcome = "emit" ->
                  /\ \E e \in HandlerEmits :
                       EmitEffect(c, e.type, None, e.priority, e.target)
                  /\ UNCHANGED inst
             [] OTHER -> UNCHANGED <<inst, queue, emitted>>
  /\ UNCHANGED <<clock, subs, plan, reg, delivered, added, bticks, mticks, saved, registered>>

(***************************************************************************)
(* ComponentManager.serialize / deserialize                                *)
(***************************************************************************)
\* a concrete component's serialize() and deserialize(data)
ComponentSerialize(c) == [state |-> inst[c].state]
ComponentDeserialize(comp, data) == [comp EXCEPT !.state = data.state]

\* a loop that resets the components data does not name
DeserializeCallsReset(cs, data) ==
  [i \in 1..Len(cs) |->
     [comp |-> cs[i],
      data |-> IF get_component_name(cs[i]) \in DOMAIN data
               THEN data[get_component_name(cs[i])] ELSE [state |-> 0]]]

\* the visits of deserialize's loop: the owned components named in data
RECURSIVE DeserializeCalls(_, _)
DeserializeCalls(cs, data) ==
  IF cs = <<>> THEN <<>>
  ELSE (IF get_component_name(Head(cs)) \in DOMAIN data
        THEN <<[comp |-> Head(cs), data |-> data[get_component_name(Head(cs))]]>>
        ELSE <<>>) \o DeserializeCalls(Tail(cs), data)

RECURSIVE ApplyDeserialize(_, _)
ApplyDeserialize(components, calls) ==
  IF calls = <<>> THEN components
  ELSE ApplyDeserialize(
         [components EXCEPT ![Head(calls).comp] = ComponentDeserialize(@, Head(calls).data)],
         Tail(calls))

deserialize(a, data) ==
  /\ pc = "idle"
  /\ LET calls == DeserializeCalls(DictValues(reg[a]), data)
     IN /\ inst' = ApplyDeserialize(inst, calls)
        /\ obs' = [op |-> "deserialize", agent |-> a, data |-> data, calls |-> calls]
  /\ UNCHANGED <<clock, queue, subs, plan, pc, reg, emitted, delivered, added,
                 bticks, mticks, saved, registered>>

\* data[k] = v on a mapping from names to states
MapSet(data, k, v) == [x \in DOMAIN data \cup {k} |-> IF x = k THEN v ELSE data[x]]

\* the loop of ComponentManager.serialize
RECURSIVE SerializeLoop(_, _)
SerializeLoop(cs, data) ==
  IF cs = <<>> THEN data
  ELSE SerializeLoop(Tail(cs),
         MapSet(data, get_component_name(Head(cs)), ComponentSerialize(Head(cs))))

Owned(a) == {reg[a][i].value : i \in 1..Len(reg[a])}

\* ComponentManager.serialize; the caller keeps the mapping (with, as history,
\* the components it was taken from)
serialize(a) ==
  /\ pc = "idle"
  /\ LET data == SerializeLoop(DictValues(reg[a]), EmptyMap)
     IN /\ saved' = [saved EXCEPT ![a] =
                       <<[data |-> data, at |-> [c \in Owned(a) |-> inst[c]]]>>]
        /\ obs' = [op |-> "serialize", agent |-> a, data |-> data,
                   visited |-> DictValues(reg[a])]
  /\ UNCHANGED <<clock, queue, subs, plan, pc, inst, reg, emitted, delivered, added,
                 bticks, mticks, registered>>

\* the mappings handed to deserialize: keys among the component names and a
\* name no component has
DataValue(k) == [state |-> IF k = "Body" THEN 2 ELSE 1]
DataChoices ==
  { [k \in S |-> DataValue(k)] :
      S \in { {"Body", "Unknown"}, {"NeedsSystem"} } }

(***************************************************************************)
(* Specifications                                                          *)
(***************************************************************************)
BodyClass == [module |-> "agent.body", name |-> "Body"]
NumMgrTicks == SeqSum([i \in 1..2 |-> mticks[IF i = 1 THEN "agent_7" ELSE "agent_8"]])

Defaults == [type |-> "ping", priority |-> DefaultPriority, target |-> Broadcast]
Urgent == [type |-> "ping", priority |-> 1, target |-> "agent_7"]
Pong == [type |-> "pong", priority |-> DefaultPriority, target |-> Broadcast]

\* the bus and components of one class: agents As own the components, each
\* of which subscribes once, with a list of Lists; the first component emits
\* the events of Emits between ticks, and handlers end as Outcomes says
BusNext(As, Lists, Emits, Outcomes) ==
  \/ \E a \in As : Len(inst) < MaxInst /\ add_component(a, BodyClass)
  \/ \E c \in 1..MaxInst, ts \in Lists :
       c \in Instances /\ inst[c].subscribed_events = <<>> /\ subscribe(c, ts)
  \/ \E e \in Emits : Len(emitted) < MaxEvents /\ emit_event(1, e)
  \/ clock < MaxClock /\ BusTickBegin
  \/ \E outcome \in Outcomes :
       /\ outcome = "raise" => NumRaised < MaxRaises
       /\ outcome = "emit" => Len(emitted) < MaxEvents
       /\ Deliver(outcome)

\* delivery order and addressing: two agents, events of two priorities
OrderNext == BusNext(Agents, {<<"ping">>}, {Defaults, Urgent}, {"ok"})
SpecOrder == Init /\ [][OrderNext]_vars

\* the delivery pass: handlers that return or emit, events of two types
PassNext == BusNext({"agent_7"}, {<<"ping">>}, {Defaults, Pong}, {"ok", "emit"})
SpecPass == Init /\ [][PassNext]_vars

\* failing handlers: handlers that return, emit or raise
FailNext == BusNext({"agent_7"}, {<<"ping">>}, {Defaults}, {"ok", "emit", "raise"})
SpecFail == Init /\ [][FailNext]_vars

\* subscription lists that repeat a type; events addressed to the agent and
\* events of a type nobody subscribes to
SubsNext ==
  BusNext({"agent_7"}, {<<"ping">>, <<"ping", "ping">>}, {Urgent, Pong}, {"ok"})
SpecSubs == Init /\ [][SubsNext]_vars

\* the managers alone: agent_7 gets components of every class and agent_8
\* of one; ticks and restores on both
MgrNext ==
  \/ \E a \in Agents, K \in Classes :
       /\ a = "agent_7" \/ K = BodyClass
       /\ Len(inst) < MaxMgrInst
       /\ add_component(a, K)
  \/ \E a \in Agents, dt \in DeltaTimes :
       NumMgrTicks < MaxMgrTicks /\ MgrTickBegin(a, dt)
  \/ \E outcome \in {"noop", "update", "raise"} : MgrTickStep(outcome)
  \/ \E a \in Agents, data \in DataChoices : deserialize(a, data)

SpecMgr == Init /\ [][MgrNext]_vars

\* the driver of debug_repro.py: one agent's components are set up and an
\* action is started, then every step is bus.tick() followed by tick(1.0) of
\* the agent's manager; between two steps events may be emitted and the
\* manager restored
DriverAgent == "agent_7"
Setup == pc = "idle" /\ bticks = 0
StepBoundary == pc = "idle" /\ mticks[DriverAgent] = bticks
\* a loop that ticks the manager before the bus
ManagerDueFirst == mticks[DriverAgent] <= bticks
\* agent.tick(1.0) follows bus.tick() in every step
ManagerDue == mticks[DriverAgent] < bticks

DriverNext ==
  \/ Setup /\ Len(inst) < MaxInst /\ add_component(DriverAgent, BodyClass)
  \/ \E c \in 1..MaxInst :
       /\ Setup
       /\ c \in Instances /\ inst[c].subscribed_events = <<>>
       /\ subscribe(c, <<"ping">>)
  \/ StepBoundary /\ Len(emitted) < MaxEvents /\ emit_event(1, Defaults)
  \/ StepBoundary /\ deserialize(DriverAgent, [k \in {"Body"} |-> DataValue(k)])
  \/ StepBoundary /\ clock < MaxClock /\ BusTickBegin
  \/ Deliver("ok")
  \/ Len(emitted) < MaxEvents /\ Deliver("emit")
  \/ ManagerDue /\ MgrTickBegin(DriverAgent, 1)
  \/ MgrTickStep("update")
  \/ Len(emitted) < MaxEvents /\ MgrTickStep("emit")

SpecDriver == Init /\ [][DriverNext]_vars

\* persistence: one manager gets components of every class, some of whose
\* constructors fail; ticks change the components' states; the manager is
\* saved, and restored from what was saved
StoreNext ==
  \/ \E K \in Classes : Len(inst) < MaxMgrInst /\ add_component(DriverAgent, K)
  \/ \E K \in Classes : add_component_raises(DriverAgent, K)
  \/ \E dt \in DeltaTimes :
       NumMgrTicks < MaxMgrTicks /\ MgrTickBegin(DriverAgent, dt)
  \/ \E outcome \in {"noop", "update"} : MgrTickStep(outcome)
  \/ serialize(DriverAgent)
  \/ /\ saved[DriverAgent] # <<>>
     /\ deserialize(DriverAgent, saved[DriverAgent][1].data)

SpecStore == Init /\ [][StoreNext]_vars

(***************************************************************************)
(* Properties                                                              *)
(***************************************************************************)
Count(s, P(_)) == Cardinality({i \in 1..Len(s) : P(s[i])})
\* a tick has just returned: every other operation overwrites obs
TickReturned == pc = "idle" /\ obs.op = "bus_tick"
\* the events that were pending when tick number n began
PendingAt(n) == {i \in 1..Len(emitted) : emitted[i].window = n - 1}
\* the invocations made in tick number n
RECURSIVE InTick(_, _)
InTick(log, n) ==
  IF log = <<>> THEN <<>>
  ELSE (IF Head(log).tick = n THEN <<Head(log)>> ELSE <<>>) \o InTick(Tail(log), n)

\* C1: in every manager, get_component(T) is the instance the latest
\* add_component(T) returned, T has exactly one entry if it was ever added
\* (none otherwise), and the registry has as many entries as distinct types
\* were added.
C1_SingletonPerType ==
  \A a \in Agents :
    /\ \A K \in Classes :
         /\ get_component(a, K) = added[a][K]
         /\ has_component(a, K) <=> added[a][K] # None
         /\ Cardinality({i \in 1..Len(reg[a]) : reg[a][i].key = K})
              = IF added[a][K] = None THEN 0 ELSE 1
    /\ Len(get_all_components(a)) = Cardinality({K \in Classes : added[a][K] # None})

\* C1 witness: a type was added a second time to a manager that also holds
\* another type, and get_component returns the second instance.
C1_Witness ==
  /\ obs.op = "add_component"
  /\ \E a \in Agents, K \in Classes :
       /\ added[a][K] = Len(inst)
       /\ \E c \in Instances :
            c < Len(inst) /\ inst[c].agent_id = a /\ inst[c].cls = K
       /\ get_component(a, K) = Len(inst)
       /\ Len(reg[a]) = 2

\* C2: an event emitted by a handler during tick N is delivered in tick N+1
\* only, there to every matching subscription, and every invocation of a tick
\* is for an event that was pending when the tick began.
C2_TickIsolation ==
  /\ \A i \in 1..Len(delivered) :
       LET d == delivered[i]
           em == emitted[d.id]
       IN /\ em.in_pass => d.tick = em.window + 1
          /\ d.id \in PendingAt(d.tick)
  /\ obs.op = "bus_tick" =>
       \A i \in 1..Len(delivered) :
         delivered[i].tick = bticks =>
           \E j \in 1..Len(obs.batch) : obs.batch[j].id = delivered[i].id
  /\ TickReturned =>
       \A k \in PendingAt(bticks) :
         emitted[k].in_pass =>
           \A i \in 1..Len(subs[emitted[k].event.type]) :
             Matches(emitted[k].event, subs[emitted[k].event.type][i]) =>
               \E j \in 1..Len(delivered) :
                 /\ delivered[j].id = k /\ delivered[j].sub = i
                 /\ delivered[j].tick = bticks

\* C2 witness: an event emitted by a handler in tick 1 has been delivered in
\* tick 2, by a handler that emitted again.
C2_Witness ==
  /\ TickReturned
  /\ \E j \in 1..Len(delivered) :
       /\ emitted[delivered[j].id].in_pass
       /\ emitted[delivered[j].id].window = 1
       /\ delivered[j].tick = 2
  /\ \E k \in 1..Len(emitted) : emitted[k].in_pass /\ emitted[k].window = 2

\* e1 goes before e2: lower priority value, or equal priority and emitted first
GoesBefore(k1, k2) ==
  \/ emitted[k1].args.priority < emitted[k2].args.priority
  \/ /\ emitted[k1].args.priority = emitted[k2].args.priority
     /\ k1 < k2

\* C3: within one tick, a handler gets two pending events in the order of
\* their priority values, and events of equal priority in emission order.
C3_PriorityOrder ==
  \A i, j \in 1..Len(delivered) :
    ( /\ delivered[i].tick = delivered[j].tick
      /\ delivered[i].handler = delivered[j].handler
      /\ delivered[i].id # delivered[j].id
      /\ GoesBefore(delivered[i].id, delivered[j].id) ) => i < j

\* C3 witness: A(priority 1), B(priority 5), C(priority 1) emitted in that
\* order reached one handler as A, C, B in one tick.
C3_Witness ==
  /\ Len(emitted) = 3
  /\ emitted[1].args.priority = 1
  /\ emitted[2].args.priority = 5
  /\ emitted[3].args.priority = 1
  /\ \E i \in 1..Len(delivered) :
       /\ i + 2 <= Len(delivered)
       /\ delivered[i].id = 1 /\ delivered[i + 1].id = 3 /\ delivered[i + 2].id = 2
       /\ delivered[i].handler = delivered[i + 1].handler
       /\ delivered[i].handler = delivered[i + 2].handler
       /\ delivered[i].tick = delivered[i + 2].tick

\* C4: an addressed event reaches only handlers of components of the target
\* agent that are subscribed to its type; a broadcast event reaches every
\* handler subscribed to its type.
C4_TargetedDelivery ==
  /\ \A i \in 1..Len(delivered) :
       LET d == delivered[i]
           em == emitted[d.id]
       IN /\ em.args.target # Broadcast => inst[d.handler].agent_id = em.args.target
          /\ d.sub \in 1..Len(subs[em.args.type])
          /\ subs[em.args.type][d.sub] = d.handler
  /\ TickReturned =>
       \A k \in PendingAt(bticks) :
         emitted[k].args.target = Broadcast =>
           \A i \in 1..Len(subs[emitted[k].args.type]) :
             \E j \in 1..Len(delivered) :
               /\ delivered[j].id = k /\ delivered[j].sub = i
               /\ delivered[j].handler = subs[emitted[k].args.type][i]

\* C4 witness: an event addressed to agent_7 went to a handler of agent_7
\* and not to the handler of agent_8 subscribed to the same type, which got
\* a broadcast event of that tick.
C4_Witness ==
  /\ TickReturned
  /\ \E k1, k2 \in PendingAt(bticks) :
       /\ emitted[k1].args.target = "agent_7"
       /\ emitted[k2].args.target = Broadcast
       /\ emitted[k2].args.type = emitted[k1].args.type
       /\ \E h7, h8 \in Instances :
            /\ inst[h7].agent_id = "agent_7" /\ inst[h8].agent_id = "agent_8"
            /\ \E j \in 1..Len(delivered) :
                 delivered[j].id = k1 /\ delivered[j].handler = h7
            /\ \E j \in 1..Len(delivered) :
                 delivered[j].id = k2 /\ delivered[j].handler = h8
            /\ ~ \E j \in 1..Len(delivered) :
                 delivered[j].id = k1 /\ delivered[j].handler = h8

\* C5: an event is delivered once to each matching subscription, in the
\* first tick after its emission and in no later one; when a tick returns
\* the pending queue holds exactly the events emitted during its pass.
C5_ExactlyOnce ==
  /\ \A i, j \in 1..Len(delivered) :
       (delivered[i].id = delivered[j].id /\ delivered[i].sub = delivered[j].sub)
         => i = j
  /\ \A i \in 1..Len(delivered) :
       delivered[i].tick = emitted[delivered[i].id].window + 1
  /\ TickReturned =>
       /\ \A k \in PendingAt(bticks) :
            \A i \in 1..Len(subs[emitted[k].event.type]) :
              Matches(emitted[k].event, subs[emitted[k].event.type][i]) =>
                Count(delivered, LAMBDA d : d.id = k /\ d.sub = i /\ d.tick = bticks) = 1
       /\ \A q \in 1..Len(queue) :
            /\ emitted[queue[q].id].in_pass
            /\ emitted[queue[q].id].window = bticks
       /\ \A k \in 1..Len(emitted) :
            (emitted[k].in_pass /\ emitted[k].window = bticks) =>
              Count(queue, LAMBDA e : e.id = k) = 1

\* C5 witness: the second tick has returned; an event delivered in the first
\* tick to two subscriptions was not delivered again, and an event emitted
\* during the second pass is pending.
C5_Witness ==
  /\ TickReturned
  /\ bticks = 2
  /\ \E i, j \in 1..Len(delivered) :
       /\ delivered[i].tick = 1 /\ delivered[j].tick = 1
       /\ delivered[i].id = delivered[j].id
       /\ delivered[i].sub # delivered[j].sub
  /\ \E i \in 1..Len(delivered) : delivered[i].tick = 2
  /\ queue # <<>>

\* C6: the clock is the number of ticks begun, which is the number of ticks
\* completed whenever no delivery pass is running (0 at the start), and a
\* step changes it only by beginning a tick, which adds exactly 1.
C6_ClockStep ==
  \/ clock' = clock
  \/ /\ clock' = clock + 1
     /\ pc = "idle" /\ obs'.op = "bus_tick" /\ bticks' = bticks + 1

C6_LogicalClock == [](get_current_time = bticks) /\ [][C6_ClockStep]_vars

\* C6 witness: after two ticks, with an event emitted and a handler
\* subscribed, a manager tick over a component has returned and the clock is 2.
C6_Witness ==
  /\ get_current_time = 2
  /\ obs.op = "mgr_tick" /\ obs.status = "ok" /\ Len(obs.called) >= 1
  /\ emitted # <<>>
  /\ delivered # <<>>

Project(ds) == [i \in 1..Len(ds) |-> [id |-> ds[i].event.id, handler |-> ds[i].handler, sub |-> ds[i].sub]]

\* C7: whether or not handlers raise, the invocations of a tick followed by
\* those still to make are the deliveries of every pending event to every
\* matching handler, and the tick ends with nothing left to deliver, the
\* clock advanced and the queue holding only what the pass emitted.
C7_FailureIsolation ==
  obs.op = "bus_tick" =>
    /\ Project(InTick(delivered, bticks)) \o Project(plan)
         = Project(DeliveryPlan(obs.batch, subs))
    /\ pc = "idle" =>
         /\ plan = <<>>
         /\ clock = bticks
         /\ \A q \in 1..Len(queue) : emitted[queue[q].id].window = bticks

\* C7 witness: a tick has returned in which a handler raised and a later
\* invocation for the same event and one for another event were made.
C7_Witness ==
  /\ TickReturned
  /\ \E i, j, k \in 1..Len(delivered) :
       /\ i < j /\ j < k
       /\ delivered[i].tick = bticks /\ delivered[k].tick = bticks
       /\ delivered[i].raised
       /\ delivered[j].id = delivered[i].id
       /\ delivered[k].id # delivered[i].id

ExpectedTicks(d, dt) == [i \in 1..Len(d) |-> [comp |-> d[i].value, dt |-> dt]]

\* C8: a ComponentManager.tick(dt) in which no component raised called tick
\* once on each owned component, with dt, in the registry's order, and on
\* nothing else.
C8_TickFanOut ==
  (obs.op = "mgr_tick" /\ obs.status = "ok" /\ obs.raised_by = None) =>
    /\ pc = "idle"
    /\ obs.called = ExpectedTicks(reg[obs.agent], obs.dt)

\* C8 witness: a tick(2) of a manager with two components returned, while a
\* replaced instance of that agent exists outside the registry.
C8_Witness ==
  /\ obs.op = "mgr_tick" /\ obs.status = "ok"
  /\ obs.dt = 2
  /\ Len(obs.called) = 2
  /\ \E c \in Instances :
       /\ inst[c].agent_id = obs.agent
       /\ \A i \in 1..Len(reg[obs.agent]) : reg[obs.agent][i].value # c

\* C9: when a component raises in tick, ComponentManager.tick is over with
\* that error: the components up to the failing one were ticked once, the
\* later ones were not, and the registry is as before the call.
C9_TickPropagates ==
  (obs.op = "mgr_tick" /\ obs.raised_by # None) =>
    LET n == Len(obs.called)
        all == ExpectedTicks(obs.reg0, obs.dt)
    IN /\ obs.status = "raised"
       /\ pc = "idle"
       /\ n \in 1..Len(all)
       /\ obs.called = SubSeq(all, 1, n)
       /\ obs.called[n].comp = obs.raised_by
       /\ reg[obs.agent] = obs.reg0

\* C9 witness: the second of three components raised.
C9_Witness ==
  /\ obs.op = "mgr_tick" /\ obs.status = "raised"
  /\ Len(obs.called) = 2
  /\ Len(reg[obs.agent]) = 3

\* C10: a ComponentManager.deserialize(data) step calls deserialize on
\* exactly the owned components whose name is a key of data, with the value
\* under that key; it creates no component, leaves every registry as it is
\* and changes no component whose name is not a key of data.
C10_DeserializeStep ==
  (obs'.op = "deserialize") =>
    LET a == obs'.agent
        data == obs'.data
        owned == {reg[a][i].value : i \in 1..Len(reg[a])}
    IN /\ reg' = reg
       /\ Len(inst') = Len(inst)
       /\ \A i \in 1..Len(obs'.calls) :
            /\ obs'.calls[i].comp \in owned
            /\ get_component_name(obs'.calls[i].comp) \in DOMAIN data
            /\ obs'.calls[i].data = data[get_component_name(obs'.calls[i].comp)]
       /\ \A c \in owned :
            Count(obs'.calls, LAMBDA x : x.comp = c)
              = IF get_component_name(c) \in DOMAIN data THEN 1 ELSE 0
       /\ \A c \in Instances :
            (c \notin owned \/ get_component_name(c) \notin DOMAIN data)
              => inst'[c] = inst[c]

C10_DeserializeFrame == [][C10_DeserializeStep]_vars

\* C10 witness: a deserialize whose data has a key no component is named
\* by and lacks the name of an owned component with a non-initial state,
\* restored two components.
C10_Witness ==
  /\ obs.op = "deserialize"
  /\ "Unknown" \in DOMAIN obs.data
  /\ Len(obs.calls) = 2
  /\ \E i \in 1..Len(reg[obs.agent]) :
       /\ get_component_name(reg[obs.agent][i].value) \notin DOMAIN obs.data
       /\ inst[reg[obs.agent][i].value].state # 0

\* C11: ComponentManager.deserialize of a mapping that serialize() returned
\* restores every component that is owned and was owned when the mapping
\* was taken to its state of that time; when nothing happened in between,
\* every owned component is as before.
C11_RoundTripStep ==
  ( /\ obs'.op = "deserialize"
    /\ saved[obs'.agent] # <<>>
    /\ obs'.data = saved[obs'.agent][1].data ) =>
    LET a == obs'.agent
        snap == saved[a][1]
    IN /\ \A c \in Owned(a) \cap DOMAIN snap.at : inst'[c].state = snap.at[c].state
       /\ (obs.op = "serialize" /\ obs.agent = a) =>
            \A c \in Owned(a) : inst'[c] = inst[c]

C11_RoundTrip == [][C11_RoundTripStep]_vars

\* C18: the mapping serialize() returns has one entry per owned component,
\* holding under each component's name that component's own serialized
\* state, and deserialize of it hands every component the state taken from
\* that same component.
C18_OneEntryPerComponent ==
  /\ obs.op = "serialize" =>
       /\ Cardinality(DOMAIN obs.data) = Len(reg[obs.agent])
       /\ \A c \in Owned(obs.agent) :
            obs.data[get_component_name(c)] = ComponentSerialize(c)
  /\ ( /\ obs.op = "deserialize"
       /\ saved[obs.agent] # <<>>
       /\ obs.data = saved[obs.agent][1].data ) =>
       \A i \in 1..Len(obs.calls) :
         obs.calls[i].comp \in DOMAIN saved[obs.agent][1].at =>
           obs.calls[i].data.state = saved[obs.agent][1].at[obs.calls[i].comp].state

\* C12: emit_event enqueues exactly one event; its source is the emitter's
\* agent id, its timestamp the clock value at emission, its type, priority
\* and target the arguments (priority 5, target "all" and an empty mapping
\* when emit_event(type) is called with every default, as handlers do), and
\* a handler receives the event with these fields unchanged.
C12_Stamped ==
  /\ \A k \in 1..Len(emitted) :
       LET r == emitted[k]
           e == r.event
       IN /\ e.source = inst[r.by].agent_id
          /\ e.timestamp = r.window
          /\ e.type = r.args.type
          /\ e.priority = r.args.priority
          /\ e.target = r.args.target
          /\ e.data = <<>>
          /\ r.in_pass => (e.priority = 5 /\ e.target = "all")
  /\ \A i \in 1..Len(delivered) :
       delivered[i].event = emitted[delivered[i].id].event

C12_EmitStep ==
  Len(emitted') # Len(emitted) =>
    /\ Len(emitted') = Len(emitted) + 1
    /\ queue' = Append(queue, emitted'[Len(emitted')].event)

C12_EmitEvent == []C12_Stamped /\ [][C12_EmitStep]_vars

\* C12 witness: an event that a handler emitted with every default while
\* the clock was 1 has been delivered in tick 2, stamped 1.
C12_Witness ==
  /\ TickReturned
  /\ \E i \in 1..Len(delivered) :
       /\ emitted[delivered[i].id].in_pass
       /\ delivered[i].event.timestamp = 1
       /\ delivered[i].now = 2
       /\ delivered[i].event.source = "agent_7"
       /\ delivered[i].event.priority = 5
       /\ delivered[i].event.target = "all"

C13_Deferred ==
  /\ pc = "mgr" => mticks[DriverAgent] = bticks
  /\ pc = "deliver" => mticks[DriverAgent] = bticks - 1
  /\ \A i \in 1..Len(delivered) :
       emitted[delivered[i].id].ctx = "mgr" =>
         delivered[i].tick = emitted[delivered[i].id].window + 1
  /\ mticks[DriverAgent] = bticks =>
       \A k \in 1..Len(emitted) :
         (emitted[k].ctx = "mgr" /\ emitted[k].window < bticks) =>
           \A i \in 1..Len(subs[emitted[k].event.type]) :
             Matches(emitted[k].event, subs[emitted[k].event.type][i]) =>
               \E j \in 1..Len(delivered) :
                 /\ delivered[j].id = k /\ delivered[j].sub = i
                 /\ delivered[j].tick = emitted[k].window + 1

C13_EmitStep ==
  Len(emitted') # Len(emitted) =>
    /\ clock' = clock
    /\ subs' = subs
    /\ \A i \in 1..Len(delivered') : delivered'[i].id # Len(emitted')
    /\ IF pc = "deliver"
       THEN plan' = Tail(plan) /\ Len(delivered') = Len(delivered) + 1
       ELSE plan' = plan /\ delivered' = delivered

C13_DeferredEmission == []C13_Deferred /\ [][C13_EmitStep]_vars

\* C13 witness: an event emitted from a component's tick in step 1 has been
\* delivered by the bus tick of step 2, whose component tick has not begun.
C13_Witness ==
  /\ TickReturned
  /\ bticks = 2 /\ mticks[DriverAgent] = 1
  /\ \E i \in 1..Len(delivered) :
       /\ emitted[delivered[i].id].ctx = "mgr"
       /\ emitted[delivered[i].id].window = 1
       /\ delivered[i].tick = 2

\* the registrations for type t, in the order made
RegisteredFor(t) == SelectSeq(registered, LAMBDA r : r.type = t)
\* the handlers invoked for event k in tick n, in the order invoked
InvokedFor(k, n) ==
  LET ds == SelectSeq(delivered, LAMBDA d : d.id = k /\ d.tick = n)
  IN [i \in 1..Len(ds) |-> ds[i].handler]

\* C14: the handlers invoked for one event of a tick are the matching
\* handlers registered for its type, in the order of their registration, and
\* the invocations for one event are not interleaved with those for another.
C14_HandlerOrder ==
  /\ TickReturned =>
       \A k \in PendingAt(bticks) :
         LET hs == SelectSeq(RegisteredFor(emitted[k].event.type),
                             LAMBDA r : Matches(emitted[k].event, r.handler))
         IN InvokedFor(k, bticks) = [i \in 1..Len(hs) |-> hs[i].handler]
  /\ \A i, j, l \in 1..Len(delivered) :
       ( /\ i < j /\ j < l
         /\ delivered[i].tick = delivered[l].tick
         /\ delivered[i].id = delivered[l].id ) => delivered[j].id = delivered[i].id

\* C14 witness: the second component registered before the first; two
\* events of one tick went each to the second and then to the first.
C14_Witness ==
  /\ TickReturned
  /\ Len(registered) = 2 /\ registered[1].handler = 2 /\ registered[2].handler = 1
  /\ \E i \in 1..Len(delivered) :
       /\ i + 3 <= Len(delivered)
       /\ delivered[i].tick = bticks /\ delivered[i + 3].tick = bticks
       /\ delivered[i].id = delivered[i + 1].id
       /\ delivered[i + 2].id = delivered[i + 3].id
       /\ delivered[i].id # delivered[i + 2].id
       /\ delivered[i].handler = 2 /\ delivered[i + 1].handler = 1
       /\ delivered[i + 2].handler = 2 /\ delivered[i + 3].handler = 1

\* C17: subscribe registers on_event once per listed type, repeats
\* included, and keeps the list as given; an event of a tick reaches a
\* component it is addressed to as many times as the component subscribed to
\* its type, and any other component not at all.
C17_OncePerSubscription ==
  /\ \A c \in Instances, t \in EventTypes :
       /\ Count(subs[t], LAMBDA h : h = c)
            = Count(inst[c].subscribed_events, LAMBDA x : x = t)
       /\ Count(registered, LAMBDA r : r.handler = c /\ r.type = t)
            = Count(inst[c].subscribed_events, LAMBDA x : x = t)
  /\ TickReturned =>
       \A k \in PendingAt(bticks), c \in Instances :
         Count(delivered, LAMBDA d : d.id = k /\ d.handler = c /\ d.tick = bticks)
           = IF Matches(emitted[k].event, c)
             THEN Count(inst[c].subscribed_events, LAMBDA x : x = emitted[k].event.type)
             ELSE 0

\* C17 witness: of two components, one subscribed with ["ping", "ping"] and
\* got an event addressed to its agent twice, the other subscribed with
\* ["ping"] and got it once, and a "pong" event reached nobody.
C17_Witness ==
  /\ TickReturned
  /\ \E c, c1 \in Instances, k, kp \in PendingAt(bticks) :
       /\ inst[c].subscribed_events = <<"ping", "ping">>
       /\ inst[c1].subscribed_events = <<"ping">>
       /\ emitted[k].event.target = "agent_7" /\ emitted[k].event.type = "ping"
       /\ Count(delivered, LAMBDA d : d.id = k /\ d.handler = c) = 2
       /\ Count(delivered, LAMBDA d : d.id = k /\ d.handler = c1) = 1
       /\ emitted[kp].event.type = "pong"
       /\ Count(delivered, LAMBDA d : d.id = kp) = 0

\* the first instance of class K that add_component made for agent a
FirstAdded(a, K) ==
  CHOOSE c \in Instances :
    /\ inst[c].agent_id = a /\ inst[c].cls = K
    /\ \A c2 \in Instances : (inst[c2].agent_id = a /\ inst[c2].cls = K) => c <= c2

\* get_all_components lists every owned component once, and a completed
\* tick and a serialize visited the components in the listed order
ListedOnceAndVisited(a) ==
  LET cs == get_all_components(a)
  IN /\ \A i, j \in 1..Len(cs) : cs[i] = cs[j] => i = j
     /\ {cs[i] : i \in 1..Len(cs)}
          = {added[a][K] : K \in {X \in Classes : added[a][X] # None}}
     /\ (obs.op = "mgr_tick" /\ obs.agent = a /\ obs.status = "ok") =>
          [i \in 1..Len(obs.called) |-> obs.called[i].comp] = cs
     /\ (obs.op = "serialize" /\ obs.agent = a) => obs.visited = cs

\* C15 as stated: the components are listed in the order of the most recent
\* insertion of their types (instances are numbered as they are made).
C15_MostRecentPosition ==
  \A a \in Agents :
    /\ ListedOnceAndVisited(a)
    /\ \A i, j \in 1..Len(reg[a]) : i < j => reg[a][i].value < reg[a][j].value

\* C15, amended: get_all_components lists every owned component once, in
\* the order in which their types were first added; a type added again
\* keeps its position; tick and serialize visit the components in this order.
C15_FirstInsertionOrder ==
  \A a \in Agents :
    /\ ListedOnceAndVisited(a)
    /\ \A i, j \in 1..Len(reg[a]) :
         i < j => FirstAdded(a, reg[a][i].key) < FirstAdded(a, reg[a][j].key)

\* C15 witness: a serialize of a manager whose first type was added again
\* after a second type visited the newer instance first.
C15_Witness ==
  /\ obs.op = "serialize"
  /\ Len(reg[obs.agent]) = 2
  /\ reg[obs.agent][1].value = 3 /\ reg[obs.agent][2].value = 2
  /\ obs.visited = <<3, 2>>

\* C16: an add_component whose constructor raised ended with the error and
\* the registry as before the call; get_component of the type is still the
\* instance stored by the latest add_component that returned.
C16_ConstructionError ==
  obs.op = "add_component_raised" =>
    /\ obs.surfaced
    /\ reg[obs.agent] = obs.reg0
    /\ get_component(obs.agent, obs.cls) = added[obs.agent][obs.cls]
    /\ has_component(obs.agent, obs.cls) <=> added[obs.agent][obs.cls] # None

\* C16 witness: the constructor of a type raised in a manager that holds an
\* instance of that type and one of another type.
C16_Witness ==
  /\ obs.op = "add_component_raised"
  /\ has_component(obs.agent, obs.cls)
  /\ get_component(obs.agent, obs.cls) # None
  /\ Len(reg[obs.agent]) = 2

\* C19: every handler invoked in a tick belongs to a component that its
\* agent's manager holds; an instance that add_component replaced gets no
\* event of a later tick.
C19_OnlyRegistered ==
  obs.op = "bus_tick" =>
    \A i \in 1..Len(delivered) :
      delivered[i].tick = bticks =>
        delivered[i].handler \in Owned(inst[delivered[i].handler].agent_id)
=============================================================================
